---- MODULE Spec2Model ----
(***************************************************************************)
(* Model of src/cheatbot_gemini.py: a chat bot that extracts the text of   *)
(* an uploaded document or photo into a per-user session (USER_TEXTS) and  *)
(* answers questions with a prompt grounded in that text, or open-domain   *)
(* when the user has no session.                                           *)
(*                                                                         *)
(* Strings.  A Python str is modelled by its run-length encoding: a        *)
(* sequence of runs [ch, n], n >= 1, adjacent runs having different ch.    *)
(* The encoding is one-to-one, so equality of encodings is equality of     *)
(* strings, and it lets the model hold texts of 50 and of 15001 characters *)
(* at the program's own thresholds.  A fixed piece of text whose inner     *)
(* characters no operation looks at (a reply message, a line of a prompt   *)
(* template, a command word) is one ch.                                    *)
(*                                                                         *)
(* Optional[T] is modelled as a sequence of length at most one: <<>> is    *)
(* None and <<x>> is x.                                                    *)
(***************************************************************************)
EXTENDS Integers, Sequences, FiniteSets, TLC

VARIABLES
    USER_TEXTS,  \* the dict user_id -> text (line 42): a function on a subset of Users
    handlers,    \* the handler coroutines the application has started, oldest first
    cleared,     \* history: the users a forget was handled for, with no store since
    update_queue, \* the updates that have arrived and wait for the application
    norm         \* a text and what normalize_persian has made of it (SpecNormalize)

vars == <<USER_TEXTS, handlers, cleared, update_queue, norm>>

-----------------------------------------------------------------------------
(* Strings as run-length encodings *)

Run(c, k) == [ch |-> c, n |-> k]

\* The string of k copies of c (empty for k = 0).
Rep(c, k) == IF k <= 0 THEN <<>> ELSE <<Run(c, k)>>

\* A one-character string, also used for a fixed piece of text.
Lit(c) == <<Run(c, 1)>>

\* Merges adjacent runs of the same character: the encoding of the same string
\* with the adjacency condition restored.
\* The run h put before the canonical string r.
Join(h, r) ==
    IF h.n <= 0 THEN r
    ELSE IF r # <<>> /\ r[1].ch = h.ch
         THEN <<Run(h.ch, h.n + r[1].n)>> \o Tail(r)
         ELSE <<h>> \o r

\* (r ranges over the one value of Canon(Tail(s)), which is so computed once.)
RECURSIVE Canon(_)
Canon(s) ==
    IF s = <<>> THEN <<>>
    ELSE CHOOSE c \in {Join(Head(s), r) : r \in {Canon(Tail(s))}} : TRUE

\* s + t
Cat(s, t) == CHOOSE c \in {Canon(u) : u \in {s \o t}} : TRUE

\* len(s)
RECURSIVE StrLen(_)
StrLen(s) == IF s = <<>> THEN 0 ELSE Head(s).n + StrLen(Tail(s))

\* s[:k] for k >= 0
RECURSIVE Take(_, _)
Take(s, k) ==
    IF s = <<>> \/ k <= 0 THEN <<>>
    ELSE IF Head(s).n >= k THEN <<Run(Head(s).ch, k)>>
         ELSE <<Head(s)>> \o Take(Tail(s), k - Head(s).n)

\* The set of characters occurring in s.
CharsOf(s) == {s[i].ch : i \in DOMAIN s}

\* s.replace(a, b) for single characters a, b
Replace(s, a, b) ==
    Canon([i \in DOMAIN s |-> IF s[i].ch = a THEN Run(b, s[i].n) ELSE s[i]])

\* The characters str.strip() removes (of the model's alphabet).
Whitespace == {" ", "\t", "\n", "\r"}

RECURSIVE LStrip(_)
LStrip(s) ==
    IF s # <<>> /\ Head(s).ch \in Whitespace THEN LStrip(Tail(s)) ELSE s

RECURSIVE RStrip(_)
RStrip(s) ==
    IF s # <<>> /\ s[Len(s)].ch \in Whitespace
    THEN RStrip(SubSeq(s, 1, Len(s) - 1))
    ELSE s

\* s.strip()
Strip(s) == RStrip(LStrip(s))

\* The characters of the class [ \t].
HSpace == {" ", "\t"}

RECURSIVE DropHSpace(_)
DropHSpace(s) ==
    IF s # <<>> /\ Head(s).ch \in HSpace THEN DropHSpace(Tail(s)) ELSE s

\* Variant of SubHSpace: tabs become spaces, and runs are left as they are.
SubHSpace_TabsOnly(s) == Replace(s, "\t", " ")

\* re.sub(r"[ \t]+", " ", s): every maximal stretch of spaces and tabs becomes
\* one space.
RECURSIVE SubHSpace(_)
SubHSpace(s) ==
    IF s = <<>> THEN <<>>
    ELSE IF Head(s).ch \in HSpace
         THEN <<Run(" ", 1)>> \o SubHSpace(DropHSpace(Tail(s)))
         ELSE <<Head(s)>> \o SubHSpace(Tail(s))

\* Variant of SubNewlines: s.replace("\n\n", "\n"), which halves a run once.
SubNewlines_Pairwise(s) ==
    [i \in DOMAIN s |->
        IF s[i].ch = "\n" THEN Run("\n", (s[i].n + 1) \div 2) ELSE s[i]]

\* re.sub(r"\n{2,}", "\n", s): every run of two or more newlines becomes one.
SubNewlines(s) ==
    [i \in DOMAIN s |-> IF s[i].ch = "\n" /\ s[i].n >= 2 THEN Run("\n", 1) ELSE s[i]]

\* The glyphs normalize_persian folds, by code point: Arabic yeh, Farsi yeh,
\* Arabic kaf, keheh.
ARABIC_YEH == "U+064A"
FARSI_YEH == "U+06CC"
ARABIC_KAF == "U+0643"
KEHEH == "U+06A9"

normalize_persian(text) ==
    LET folded == Replace(Replace(text, ARABIC_YEH, FARSI_YEH), ARABIC_KAF, KEHEH)
    IN  Strip(SubNewlines(SubHSpace(folded)))

-----------------------------------------------------------------------------
(* Configuration (lines 42-50) *)

MAX_CONTEXT_CHARS == 15000
MAX_FILE_MB == 20

\* The literal 50 of the length checks (lines 151 and 175).
MIN_TEXT_LEN == 50

\* The two button captions of main_keyboard.
BTN_START == Lit("BTN_START")
BTN_FORGET == Lit("BTN_FORGET")

(* The fixed texts the handlers send *)
MSG_WELCOME == Lit("MSG_WELCOME")
MSG_FORGOTTEN == Lit("MSG_FORGOTTEN")
MSG_SEND_FILE == Lit("MSG_SEND_FILE")
MSG_TOO_LARGE == Lit("MSG_TOO_LARGE")
MSG_EXTRACTING == Lit("MSG_EXTRACTING")
MSG_NO_TEXT == Lit("MSG_NO_TEXT")
MSG_OCR == Lit("MSG_OCR")
MSG_NO_TEXT_PHOTO == Lit("MSG_NO_TEXT_PHOTO")
MSG_STORED == Lit("MSG_STORED")
MSG_PREPARING == Lit("MSG_PREPARING")
MSG_NO_ANSWER == Lit("MSG_NO_ANSWER")
MSG_GEMINI_ERROR == Lit("MSG_GEMINI_ERROR")

-----------------------------------------------------------------------------
(* Utilities (lines 55-70) *)

\* A path is modelled by the two parts os.path.splitext gives.  The random
\* prefix and the replacement of unusual characters do not change the
\* extension of the names used here.
safe_unique_path(original_name, suffix) ==
    IF original_name = <<>>
    THEN [stem |-> "file", ext |-> suffix]
    ELSE original_name[1]

\* Variant of file_too_large: the limit itself is already too large.
file_too_large_Inclusive(size_bytes) == size_bytes >= MAX_FILE_MB * 1024 * 1024

file_too_large(size_bytes) == size_bytes > MAX_FILE_MB * 1024 * 1024

-----------------------------------------------------------------------------
(* Text extraction (lines 74-97) *)

\* str.lower() on the extensions used.
Lower(ext) ==
    CASE ext = ".PDF" -> ".pdf"
      [] ext = ".JPG" -> ".jpg"
      [] OTHER -> ext

\* Variant of extract_text: a file of no known kind is read as plain text.
extract_text_ReadsUnknown(path, content) ==
    LET ext == Lower(path.ext)
        raises == ext \in {".pdf", ".png", ".jpg", ".jpeg", ".webp", ".docx"} /\ ~content.ok
    IN  IF raises
        THEN [raised |-> TRUE, text |-> <<>>]
        ELSE [raised |-> FALSE, text |-> normalize_persian(content.raw)]

\* Variant of extract_text: the text is returned as it was read.
extract_text_Raw(path, content) ==
    LET ext == Lower(path.ext)
        known == ext \in {".pdf", ".png", ".jpg", ".jpeg", ".webp", ".docx", ".txt"}
        raises == known /\ ext # ".txt" /\ ~content.ok
        text == IF known THEN content.raw ELSE <<>>
    IN  IF raises
        THEN [raised |-> TRUE, text |-> <<>>]
        ELSE [raised |-> FALSE, text |-> text]

\* What is on disk at a path: content.ok says whether the library that reads
\* the format can read it, content.raw is the text it then returns.
\* The result: raised, or the normalized text.
extract_text(path, content) ==
    LET ext == Lower(path.ext)
        known == ext \in {".pdf", ".png", ".jpg", ".jpeg", ".webp", ".docx", ".txt"}
        \* open(..., errors="ignore") reads any bytes
        raises == known /\ ext # ".txt" /\ ~content.ok
        text == IF known THEN content.raw ELSE <<>>
    IN  IF raises
        THEN [raised |-> TRUE, text |-> <<>>]
        ELSE [raised |-> FALSE, text |-> normalize_persian(text)]

-----------------------------------------------------------------------------
(* The backend call (lines 101-107) *)

\* Variant of gemini_answer: the text is returned as the backend gave it.
gemini_answer_Unstripped(resp) ==
    IF resp.text = <<>> THEN <<>> ELSE resp.text[1]

\* resp.text is Optional; a response that raises carries the error instead.
gemini_answer(resp) ==
    Strip(IF resp.text = <<>> THEN <<>> ELSE resp.text[1])

-----------------------------------------------------------------------------
(* The prompts of handle_question (lines 190-205) *)

RECURSIVE CatAll(_)
CatAll(parts) ==
    IF parts = <<>> THEN <<>> ELSE Cat(Head(parts), CatAll(Tail(parts)))

\* The four instruction lines, the two section labels and the open-domain
\* instruction are one character each.
INSTRUCTIONS == Lit("INSTRUCTIONS")
CONTEXT_LABEL == Lit("CONTEXT_LABEL")
QUESTION_LABEL == Lit("QUESTION_LABEL")
OPEN_INSTRUCTION == Lit("OPEN_INSTRUCTION")

\* Variant of context_text: the slice is one character too long.
context_text_OneMore(text) == Take(text, MAX_CONTEXT_CHARS + 1)

context_text(text) == Take(text, MAX_CONTEXT_CHARS)

GroundedPrompt(text, question) ==
    Strip(CatAll(<<Lit("\n"), INSTRUCTIONS, Rep("\n", 2),
                   CONTEXT_LABEL, Lit("\n"), context_text(text), Rep("\n", 2),
                   QUESTION_LABEL, Lit("\n"), question, Lit("\n")>>))

OpenPrompt(question) == CatAll(<<OPEN_INSTRUCTION, Lit("\n"), question>>)

\* Variant of BuildPrompt: it tests whether any session exists, not the user's.
BuildPrompt_AnySession(store, user_id, question) ==
    IF DOMAIN store # {}
    THEN GroundedPrompt(store[CHOOSE v \in DOMAIN store : v = user_id \/ user_id \notin DOMAIN store],
                        question)
    ELSE OpenPrompt(question)

BuildPrompt(store, user_id, question) ==
    IF user_id \in DOMAIN store
    THEN GroundedPrompt(store[user_id], question)
    ELSE OpenPrompt(question)

-----------------------------------------------------------------------------
(* The updates the transport delivers *)

Users == {"u1", "u2"}

\* Texts a format library returns for a file.  RAW_49 is 53 characters that
\* normalize to 49, RAW_50 is 52 that normalize to 50, RAW_15000 is 15003
\* that normalize to 15000, and RAW_15001 is already normal.
RAW_49 == CatAll(<<Rep(" ", 2), Rep("a", MIN_TEXT_LEN - 1), Rep("\n", 2)>>)
RAW_50 ==
    CatAll(<<Lit(ARABIC_YEH), Rep("a", MIN_TEXT_LEN - 3), Lit("\t"), Lit(" "),
             Lit("\t"), Lit(ARABIC_KAF)>>)
RAW_15000 == CatAll(<<Lit("\n"), Rep("c", MAX_CONTEXT_CHARS), Rep("\n", 2)>>)
RAW_15001 == Rep("b", MAX_CONTEXT_CHARS + 1)
RAW_PHOTO == CatAll(<<Rep("p", MIN_TEXT_LEN), Rep("\n", 3), Rep("p", 1)>>)

Readable(raw) == [ok |-> TRUE, raw |-> raw]
Corrupt == [ok |-> FALSE, raw |-> <<>>]

Name(stem, ext) == <<[stem |-> stem, ext |-> ext]>>

Doc(file_name, file_size, content) ==
    [file_name |-> file_name, file_size |-> file_size, content |-> content]

\* update.message.document: the declared size at, above and below the limit,
\* and absent; every kind of file extract_text tells apart.
Documents ==
    {Doc(Name("facts", ".txt"), sz, Readable(RAW_50)) :
        sz \in {<<>>, <<0>>, <<MAX_FILE_MB * 1024 * 1024>>,
                <<MAX_FILE_MB * 1024 * 1024 + 1>>}}
    \cup
    {Doc(nc[1], <<1024>>, nc[2]) :
        nc \in {<<Name("short", ".txt"), Readable(RAW_49)>>,
                <<Name("book", ".PDF"), Readable(RAW_15001)>>,
                <<Name("book", ".pdf"), Readable(RAW_15000)>>,
                <<Name("broken", ".docx"), Corrupt>>,
                <<Name("scan", ".png"), Readable(RAW_PHOTO)>>,
                <<Name("data", ".xyz"), Readable(RAW_50)>>,
                <<Name("blob", ".bin"), Corrupt>>,
                <<<<>>, Readable(RAW_50)>>}}

\* What OCR makes of the largest size of update.message.photo.
Photos == {Readable(RAW_49), Readable(RAW_PHOTO), Corrupt}

QUESTION == Lit("q")

\* update.message.text
Texts ==
    {Lit("/start"), Lit("/help"), BTN_START, BTN_FORGET, Rep(" ", 2),
     CatAll(<<Lit(" "), QUESTION, Lit("\n")>>)}

Update(user_id, text, document, photo) ==
    [user_id |-> user_id, text |-> text, document |-> document, photo |-> photo]

Updates ==
    {Update(u, <<t>>, <<>>, <<>>) : u \in Users, t \in Texts}
    \cup {Update(u, <<>>, <<d>>, <<>>) : u \in Users, d \in Documents}
    \cup {Update(u, <<>>, <<>>, <<p>>) : u \in Users, p \in Photos}

\* What generate_content does: a response with a text, with none, or an error.
Response(text) == [raises |-> FALSE, text |-> text, error |-> "none"]
Responses ==
    {Response(<<CatAll(<<Lit(" "), Lit("answer"), Lit("\n")>>)>>),
     Response(<<Rep(" ", 3)>>),
     Response(<<>>),
     [raises |-> TRUE, text |-> <<>>, error |-> "ResourceExhausted"]}

-----------------------------------------------------------------------------
(* The handlers main registers (lines 222-232) and their filters *)

IsText(update) == update.text # <<>>
IsCommand(update) ==
    IsText(update) /\ update.text[1] \in {Lit("/start"), Lit("/help")}

\* The handlers are in one group: the first whose filter matches handles the
\* update, and an update none matches is dropped.
HandlerFor(update) ==
    CASE IsText(update) /\ update.text[1] = Lit("/start") -> <<"start">>
      [] IsText(update) /\ update.text[1] \in {BTN_START, BTN_FORGET} ->
            <<"handle_buttons">>
      [] update.document # <<>> -> <<"handle_document">>
      [] update.photo # <<>> -> <<"handle_photo">>
      [] IsText(update) /\ ~IsCommand(update) -> <<"handle_question">>
      [] OTHER -> <<>>

\* A handler coroutine: its update, its position, its local variables, what it
\* has sent and called, the response the backend gave it, and as history: the
\* store as it was when it was started (entry) and the upload of the same user
\* that was in flight when its update arrived (during).
NewHandler(name, update, store) ==
    [handler |-> name, user_id |-> update.user_id, update |-> update,
     pc |-> "start",
     file_path |-> [stem |-> "", ext |-> ""], text |-> <<>>,
     question |-> <<>>, prompt |-> <<>>, answer |-> <<>>, error |-> "none",
     replies |-> <<>>, downloaded |-> FALSE, extracted |-> FALSE, calls |-> 0,
     response |-> <<>>, entry |-> store, during |-> <<>>]

Finished(h) == h.pc \in {"done", "raised"}

\* ApplicationBuilder().build() leaves concurrent_updates off: the application
\* awaits the handler of one update before it takes the next.
CONCURRENT_UPDATES == FALSE

\* norm while no text is being normalized.
NoNorm == [text |-> <<>>, once |-> <<>>, twice |-> <<>>]

Init ==
    /\ USER_TEXTS = [v \in {} |-> <<>>]
    /\ handlers = <<>>
    /\ cleared = {}
    /\ update_queue = <<>>
    /\ norm = NoNorm

\* The application takes the next update; the coroutines that have finished
\* are dropped from the model.
Dispatch ==
    /\ CONCURRENT_UPDATES \/ \A i \in DOMAIN handlers : Finished(handlers[i])
    /\ \E update \in Updates :
        LET running == SelectSeq(handlers, LAMBDA h : ~Finished(h))
            name == HandlerFor(update)
        IN  handlers' =
                IF name = <<>> THEN running
                ELSE Append(running, NewHandler(name[1], update, USER_TEXTS))
    /\ UNCHANGED <<USER_TEXTS, cleared, update_queue, norm>>

At(i, name, pc) ==
    /\ i \in DOMAIN handlers
    /\ handlers[i].handler = name
    /\ handlers[i].pc = pc

Reply(h, message) == [h EXCEPT !.replies = Append(@, message)]

\* Variant of Pop: nothing is removed.
Pop_Nothing(store, user_id) == store

\* Variant of Pop: the sessions of all users are removed.
Pop_Everyone(store, user_id) == [v \in {} |-> <<>>]

\* USER_TEXTS.pop(user_id, None)
Pop(store, user_id) == [v \in DOMAIN store \ {user_id} |-> store[v]]

\* Variant of Store: a new text is added to the one the user has.
Store_Appends(store, user_id, text) ==
    [v \in DOMAIN store \cup {user_id} |->
        IF v # user_id THEN store[v]
        ELSE IF user_id \in DOMAIN store
             THEN CatAll(<<store[user_id], Lit("\n"), text>>)
             ELSE text]

\* USER_TEXTS[user_id] = text
Store(store, user_id, text) ==
    [v \in DOMAIN store \cup {user_id} |-> IF v = user_id THEN text ELSE store[v]]

\* start (lines 111-118)
Start(i) ==
    /\ At(i, "start", "start")
    /\ handlers' = [handlers EXCEPT ![i] = [Reply(@, MSG_WELCOME) EXCEPT !.pc = "done"]]
    /\ UNCHANGED <<USER_TEXTS, cleared>>

\* handle_buttons (lines 121-130)
HandleButtons(i) ==
    /\ At(i, "handle_buttons", "start")
    /\ LET h == handlers[i]
           text == Strip(IF h.update.text = <<>> THEN <<>> ELSE h.update.text[1])
       IN  IF text = BTN_FORGET
           THEN /\ USER_TEXTS' = Pop(USER_TEXTS, h.user_id)
                /\ cleared' = cleared \cup {h.user_id}
                /\ handlers' = [handlers EXCEPT
                        ![i] = [Reply(h, MSG_FORGOTTEN) EXCEPT !.pc = "done"]]
           ELSE /\ handlers' = [handlers EXCEPT
                        ![i] = [(IF text = BTN_START THEN Reply(h, MSG_SEND_FILE) ELSE h)
                                    EXCEPT !.pc = "done"]]
                /\ UNCHANGED <<USER_TEXTS, cleared>>

\* Variants of TooShort: the threshold one lower, and the threshold included.
TooShort_OneLess(text) == StrLen(text) < MIN_TEXT_LEN - 1
TooShort_Inclusive(text) == StrLen(text) <= MIN_TEXT_LEN

\* len(text) < 50 (lines 151 and 175)
TooShort(text) == StrLen(text) < MIN_TEXT_LEN

\* handle_document up to its first await (lines 134-143): the size gate.
HandleDocumentStart(i) ==
    /\ At(i, "handle_document", "start")
    /\ LET h == handlers[i]
           doc == h.update.document
       IN  handlers' = [handlers EXCEPT ![i] =
             IF doc = <<>> THEN [h EXCEPT !.pc = "done"]
             ELSE IF /\ doc[1].file_size # <<>>
                     /\ doc[1].file_size[1] # 0
                     /\ file_too_large(doc[1].file_size[1])
                  THEN [Reply(h, MSG_TOO_LARGE) EXCEPT !.pc = "done"]
                  ELSE [h EXCEPT
                          !.file_path = safe_unique_path(doc[1].file_name,
                              IF doc[1].file_name = <<>> THEN ""
                              ELSE doc[1].file_name[1].ext),
                          !.pc = "download"]]
    /\ UNCHANGED <<USER_TEXTS, cleared>>

\* handle_photo up to its first await (lines 160-168)
HandlePhotoStart(i) ==
    /\ At(i, "handle_photo", "start")
    /\ LET h == handlers[i]
       IN  handlers' = [handlers EXCEPT ![i] =
             IF h.update.photo = <<>> THEN [h EXCEPT !.pc = "done"]
             ELSE [h EXCEPT
                     !.file_path = safe_unique_path(Name("photo", ".jpg"), ".jpg"),
                     !.pc = "download"]]
    /\ UNCHANGED <<USER_TEXTS, cleared>>

\* The download returns, the notice is sent and extract_text is handed to a
\* worker thread (lines 144-149 and 166-173).
Download(i, notice) ==
    /\ handlers' = [handlers EXCEPT ![i] =
          [Reply(@, notice) EXCEPT !.downloaded = TRUE, !.pc = "extract"]]
    /\ UNCHANGED <<USER_TEXTS, cleared>>

HandleDocumentDownload(i) ==
    At(i, "handle_document", "download") /\ Download(i, MSG_EXTRACTING)

HandlePhotoDownload(i) ==
    At(i, "handle_photo", "download") /\ Download(i, MSG_OCR)

\* extract_text returns or raises in its thread and the handler resumes
\* (lines 149-156 and 173-180).  Nothing catches what extract_text raises: the
\* exception leaves the handler.
Extract(i, content, no_text) ==
    LET h == handlers[i]
        r == extract_text(h.file_path, content)
    IN  IF r.raised
        THEN /\ handlers' = [handlers EXCEPT ![i] =
                    [h EXCEPT !.extracted = TRUE, !.error = "extract_text",
                              !.pc = "raised"]]
             /\ UNCHANGED <<USER_TEXTS, cleared>>
        ELSE IF TooShort(r.text)
        THEN /\ handlers' = [handlers EXCEPT ![i] =
                    [Reply(h, no_text) EXCEPT !.extracted = TRUE, !.text = r.text,
                                              !.pc = "done"]]
             /\ UNCHANGED <<USER_TEXTS, cleared>>
        ELSE /\ USER_TEXTS' = Store(USER_TEXTS, h.user_id, r.text)
             /\ cleared' = cleared \ {h.user_id}
             /\ handlers' = [handlers EXCEPT ![i] =
                    [Reply(h, MSG_STORED) EXCEPT !.extracted = TRUE, !.text = r.text,
                                                 !.pc = "done"]]

HandleDocumentExtract(i) ==
    /\ At(i, "handle_document", "extract")
    /\ Extract(i, handlers[i].update.document[1].content, MSG_NO_TEXT)

HandlePhotoExtract(i) ==
    /\ At(i, "handle_photo", "extract")
    /\ Extract(i, handlers[i].update.photo[1], MSG_NO_TEXT_PHOTO)

\* Variant of HandleQuestionStart: the session text is read without the
\* presence test, and the read of an absent key raises.
HandleQuestionStart_ReadsUnchecked(i) ==
    /\ At(i, "handle_question", "start")
    /\ LET h == handlers[i]
           question == Strip(IF h.update.text = <<>> THEN <<>> ELSE h.update.text[1])
       IN  handlers' = [handlers EXCEPT ![i] =
             IF question = <<>> THEN [h EXCEPT !.pc = "done"]
             ELSE IF h.user_id \notin DOMAIN USER_TEXTS
             THEN [h EXCEPT !.question = question, !.error = "KeyError",
                            !.pc = "raised"]
             ELSE [Reply(h, MSG_PREPARING) EXCEPT
                     !.question = question,
                     !.prompt = BuildPrompt(USER_TEXTS, h.user_id, question),
                     !.calls = @ + 1,
                     !.pc = "answer"]]
    /\ UNCHANGED <<USER_TEXTS, cleared>>

\* handle_question up to its await of the backend call (lines 184-210)
HandleQuestionStart(i) ==
    /\ At(i, "handle_question", "start")
    /\ LET h == handlers[i]
           question == Strip(IF h.update.text = <<>> THEN <<>> ELSE h.update.text[1])
       IN  handlers' = [handlers EXCEPT ![i] =
             IF question = <<>> THEN [h EXCEPT !.pc = "done"]
             ELSE [Reply(h, MSG_PREPARING) EXCEPT
                     !.question = question,
                     !.prompt = BuildPrompt(USER_TEXTS, h.user_id, question),
                     !.calls = @ + 1,
                     !.pc = "answer"]]
    /\ UNCHANGED <<USER_TEXTS, cleared>>

\* Variant of Answered: the message for a failed call quotes the error.
Answered_QuotesError(h, resp) ==
    IF resp.raises
    THEN [Reply(h, Cat(MSG_GEMINI_ERROR, Lit(resp.error))) EXCEPT
            !.response = <<resp>>, !.error = resp.error, !.pc = "done"]
    ELSE LET answer == IF gemini_answer(resp) = <<>> THEN MSG_NO_ANSWER
                       ELSE gemini_answer(resp)
         IN  [Reply(h, answer) EXCEPT
                !.response = <<resp>>, !.answer = answer, !.pc = "done"]

\* Variant of Answered: nothing is sent when the backend gave no text.
Answered_SilentWhenEmpty(h, resp) ==
    IF resp.raises
    THEN [Reply(h, MSG_GEMINI_ERROR) EXCEPT
            !.response = <<resp>>, !.error = resp.error, !.pc = "done"]
    ELSE IF gemini_answer(resp) = <<>>
         THEN [h EXCEPT !.response = <<resp>>, !.pc = "done"]
         ELSE [Reply(h, gemini_answer(resp)) EXCEPT
                 !.response = <<resp>>, !.answer = gemini_answer(resp),
                 !.pc = "done"]

\* What handle_question does with the backend's response (lines 209-218):
\* the reply it sends and what it keeps.
Answered(h, resp) ==
    IF resp.raises
    THEN [Reply(h, MSG_GEMINI_ERROR) EXCEPT
            !.response = <<resp>>, !.error = resp.error, !.pc = "done"]
    ELSE LET answer == IF gemini_answer(resp) = <<>> THEN MSG_NO_ANSWER
                       ELSE gemini_answer(resp)
         IN  [Reply(h, answer) EXCEPT
                !.response = <<resp>>, !.answer = answer, !.pc = "done"]

\* Variant of HandleQuestionAnswer: the session is used up by the answer.
HandleQuestionAnswer_Forgets(i) ==
    /\ At(i, "handle_question", "answer")
    /\ \E resp \in Responses :
          handlers' = [handlers EXCEPT ![i] = Answered(handlers[i], resp)]
    /\ USER_TEXTS' = Pop(USER_TEXTS, handlers[i].user_id)
    /\ UNCHANGED cleared

\* gemini_answer returns or raises in its thread and the handler resumes.
HandleQuestionAnswer(i) ==
    /\ At(i, "handle_question", "answer")
    /\ \E resp \in Responses :
          handlers' = [handlers EXCEPT ![i] = Answered(handlers[i], resp)]
    /\ UNCHANGED <<USER_TEXTS, cleared>>

\* extract_text or gemini_answer never returns: asyncio.to_thread is awaited
\* without a timeout (lines 149, 173 and 210), so the handler stays suspended.
Hang(i) ==
    /\ i \in DOMAIN handlers
    /\ handlers[i].pc \in {"extract", "answer"}
    /\ handlers' = [handlers EXCEPT ![i].pc = "hung"]
    /\ UNCHANGED <<USER_TEXTS, cleared>>

\* A step of some handler coroutine; the handlers touch neither the queue of
\* updates nor norm.
StartStep ==
    (\E i \in DOMAIN handlers : Start(i)) /\ UNCHANGED <<update_queue, norm>>

HandleButtonsStep ==
    (\E i \in DOMAIN handlers : HandleButtons(i)) /\ UNCHANGED <<update_queue, norm>>

HandleDocumentStartStep ==
    (\E i \in DOMAIN handlers : HandleDocumentStart(i)) /\ UNCHANGED <<update_queue, norm>>

HandleDocumentDownloadStep ==
    (\E i \in DOMAIN handlers : HandleDocumentDownload(i)) /\ UNCHANGED <<update_queue, norm>>

HandleDocumentExtractStep ==
    (\E i \in DOMAIN handlers : HandleDocumentExtract(i)) /\ UNCHANGED <<update_queue, norm>>

HandlePhotoStartStep ==
    (\E i \in DOMAIN handlers : HandlePhotoStart(i)) /\ UNCHANGED <<update_queue, norm>>

HandlePhotoDownloadStep ==
    (\E i \in DOMAIN handlers : HandlePhotoDownload(i)) /\ UNCHANGED <<update_queue, norm>>

HandlePhotoExtractStep ==
    (\E i \in DOMAIN handlers : HandlePhotoExtract(i)) /\ UNCHANGED <<update_queue, norm>>

HandleQuestionStartStep ==
    (\E i \in DOMAIN handlers : HandleQuestionStart(i)) /\ UNCHANGED <<update_queue, norm>>

HandleQuestionAnswerStep ==
    (\E i \in DOMAIN handlers : HandleQuestionAnswer(i)) /\ UNCHANGED <<update_queue, norm>>

HangStep ==
    (\E i \in DOMAIN handlers : Hang(i)) /\ UNCHANGED <<update_queue, norm>>

Next ==
    \/ Dispatch
    \/ StartStep
    \/ HandleButtonsStep
    \/ HandleDocumentStartStep
    \/ HandleDocumentDownloadStep
    \/ HandleDocumentExtractStep
    \/ HandlePhotoStartStep
    \/ HandlePhotoDownloadStep
    \/ HandlePhotoExtractStep
    \/ HandleQuestionStartStep
    \/ HandleQuestionAnswerStep
    \/ HangStep

Spec == Init /\ [][Next]_vars

\* The event loop resumes a coroutine that is ready: handle_question runs to
\* its backend call, and resumes when the call returns or raises.  A call
\* that never returns (Hang) is no step the loop owes.
SpecLive ==
    /\ Spec
    /\ WF_vars(HandleQuestionStartStep)
    /\ WF_vars(HandleQuestionAnswerStep)

-----------------------------------------------------------------------------
(* normalize_persian on its own: every text of at most MaxRuns runs of at   *)
(* most MaxCount equal characters is normalized, and the result normalized  *)
(* again.                                                                   *)

MaxRuns == 3
MaxCount == 3

\* The folded glyphs and what they fold to, the characters the patterns and
\* strip() look for, and an ordinary character.
Alphabet ==
    {ARABIC_YEH, FARSI_YEH, ARABIC_KAF, KEHEH, " ", "\t", "\n", "\r", "a"}

\* The texts of exactly k runs: adjacent runs hold different characters.
SmallTexts(k) ==
    {s \in [1..k -> {Run(c, n) : c \in Alphabet, n \in 1..MaxCount}] :
        \A j \in 1..(k - 1) : s[j].ch # s[j + 1].ch}

InitNormalize ==
    /\ USER_TEXTS = [v \in {} |-> <<>>]
    /\ handlers = <<>>
    /\ cleared = {}
    /\ update_queue = <<>>
    /\ \E k \in 0..MaxRuns : \E t \in SmallTexts(k) :
            norm = [text |-> t, once |-> <<>>, twice |-> <<>>]

NormalizeOnce ==
    /\ norm.once = <<>>
    /\ norm' = [norm EXCEPT !.once = <<normalize_persian(norm.text)>>]
    /\ UNCHANGED <<USER_TEXTS, handlers, cleared, update_queue>>

NormalizeTwice ==
    /\ norm.once # <<>> /\ norm.twice = <<>>
    /\ norm' = [norm EXCEPT !.twice = <<normalize_persian(norm.once[1])>>]
    /\ UNCHANGED <<USER_TEXTS, handlers, cleared, update_queue>>

NextNormalize == NormalizeOnce \/ NormalizeTwice

SpecNormalize == InitNormalize /\ [][NextNormalize]_vars

-----------------------------------------------------------------------------
(* The application with its queue of updates (lines 222-232): run_polling   *)
(* puts each update it receives on the queue, whatever the handlers are     *)
(* doing, and the application takes them from it one at a time.             *)

MaxQueue == 1

\* The updates that arrive: a forget, a question and a document of each user.
QueueUpdates ==
    {Update(u, <<t>>, <<>>, <<>>) : u \in Users, t \in {BTN_FORGET, QUESTION}}
    \cup {Update(u, <<>>, <<Doc(Name("facts", ".txt"), <<1024>>, Readable(RAW_50))>>, <<>>) :
            u \in Users}

\* As history, with an update on the queue: the handler of the same user that
\* was suspended when the update arrived, and how many updates were waiting.
InFlight(user_id) ==
    IF \E i \in DOMAIN handlers :
            handlers[i].user_id = user_id /\ ~Finished(handlers[i])
    THEN LET i == CHOOSE i \in DOMAIN handlers :
                    handlers[i].user_id = user_id /\ ~Finished(handlers[i])
         IN  <<[handler |-> handlers[i].handler, pc |-> handlers[i].pc,
                update |-> handlers[i].update, behind |-> Len(update_queue)]>>
    ELSE <<>>

\* An update arrives from Telegram.
Arrive ==
    /\ Len(update_queue) < MaxQueue
    /\ \E update \in QueueUpdates :
          update_queue' = Append(update_queue,
              [update |-> update, during |-> InFlight(update.user_id)])
    /\ UNCHANGED <<USER_TEXTS, handlers, cleared, norm>>

\* The application takes the update at the head of the queue, as Dispatch
\* takes one: when the handler of the update before it has finished.
Fetch ==
    /\ CONCURRENT_UPDATES \/ \A i \in DOMAIN handlers : Finished(handlers[i])
    /\ update_queue # <<>>
    /\ LET update == Head(update_queue).update
           running == SelectSeq(handlers, LAMBDA h : ~Finished(h))
           name == HandlerFor(update)
       IN  handlers' =
               IF name = <<>> THEN running
               ELSE Append(running,
                       [NewHandler(name[1], update, USER_TEXTS) EXCEPT
                           !.during = Head(update_queue).during])
    /\ update_queue' = Tail(update_queue)
    /\ UNCHANGED <<USER_TEXTS, cleared, norm>>

\* The steps of the handlers these updates go to.
NextQueue ==
    \/ Arrive
    \/ Fetch
    \/ HandleButtonsStep
    \/ HandleDocumentStartStep
    \/ HandleDocumentDownloadStep
    \/ HandleDocumentExtractStep
    \/ HandleQuestionStartStep
    \/ HandleQuestionAnswerStep
    \/ HangStep

SpecQueue == Init /\ [][NextQueue]_vars

-----------------------------------------------------------------------------
(* Vocabulary of the properties *)

Handlers == {handlers[i] : i \in DOMAIN handlers}

Uploads == {h \in Handlers : h.handler \in {"handle_document", "handle_photo"}}

Questions == {h \in Handlers : h.handler = "handle_question"}

\* The session of a user in a store: <<>> when absent, <<text>> otherwise.
SessionOf(store, u) == IF u \in DOMAIN store THEN <<store[u]>> ELSE <<>>

LastReply(h) == IF h.replies = <<>> THEN <<>> ELSE <<h.replies[Len(h.replies)]>>

NoTextMessage(h) ==
    IF h.handler = "handle_document" THEN MSG_NO_TEXT ELSE MSG_NO_TEXT_PHOTO

\* The upload's extraction returned a text (it did not raise).
Extracted(h) == h.extracted /\ h.pc = "done"

\* The question handler has built its prompt and called the backend with it.
Asked(h) == h.handler = "handle_question" /\ h.pc \in {"answer", "done"} /\ h.calls > 0

\* p is a prefix of s.
IsPrefix(p, s) ==
    \/ p = <<>>
    \/ /\ Len(p) <= Len(s)
       /\ \A k \in 1..(Len(p) - 1) : p[k] = s[k]
       /\ p[Len(p)].ch = s[Len(p)].ch
       /\ \/ p[Len(p)].n = s[Len(p)].n
          \/ p[Len(p)].n < s[Len(p)].n /\ Len(p) = Len(s)

Position(p, c) == CHOOSE k \in DOMAIN p : p[k].ch = c

HasContextSection(p) == "CONTEXT_LABEL" \in CharsOf(p)

\* A prompt of the grounded form: the instructions, a blank line, the context
\* label and under it the context, a blank line, the question label and under
\* it the question.
GroundedForm(p, question) ==
    /\ {"CONTEXT_LABEL", "QUESTION_LABEL"} \subseteq CharsOf(p)
    /\ LET a == Position(p, "CONTEXT_LABEL")
           b == Position(p, "QUESTION_LABEL")
       IN  /\ a = 3 /\ b >= a + 3
           /\ SubSeq(p, 1, a + 1) =
                <<Run("INSTRUCTIONS", 1), Run("\n", 2), Run("CONTEXT_LABEL", 1),
                  Run("\n", 1)>>
           /\ p[b - 1] = Run("\n", 2)
           /\ SubSeq(p, b + 1, Len(p)) = <<Run("\n", 1)>> \o question

\* The context a prompt of the grounded form embeds.
EmbeddedContext(p) ==
    SubSeq(p, Position(p, "CONTEXT_LABEL") + 2, Position(p, "QUESTION_LABEL") - 2)

\* A prompt of the open-domain form: the instruction and the question only.
OpenForm(p, question) ==
    p = <<Run("OPEN_INSTRUCTION", 1), Run("\n", 1)>> \o question

Min(a, b) == IF a <= b THEN a ELSE b

-----------------------------------------------------------------------------
(* Properties *)

\* C1: an upload (document or photo) whose extracted, normalized text is
\* shorter than 50 characters leaves the user's session as it was when the
\* upload arrived, present or absent, and the user is sent the
\* extraction-failure message.
C1_ShortExtractionKeepsSession ==
    \A h \in Uploads :
        Extracted(h) /\ StrLen(h.text) < 50 =>
            /\ SessionOf(USER_TEXTS, h.user_id) = SessionOf(h.entry, h.user_id)
            /\ LastReply(h) = <<NoTextMessage(h)>>

\* A 49-character extraction for a user who has a session has been refused.
C1_Witness ==
    \E h \in Uploads :
        /\ Extracted(h) /\ StrLen(h.text) = 49
        /\ h.user_id \in DOMAIN h.entry
        /\ LastReply(h) = <<NoTextMessage(h)>>

\* C2: the threshold is exactly 50 characters of normalized text: every
\* extraction shorter than 50 (49 included) is reported as a failure and
\* stores nothing, every extraction of 50 or more becomes the user's session
\* text, whether the user had a session or not.
C2_ThresholdIsFifty ==
    \A h \in Uploads :
        Extracted(h) =>
            IF StrLen(h.text) <= 49
            THEN /\ LastReply(h) = <<NoTextMessage(h)>>
                 /\ USER_TEXTS = h.entry
            ELSE /\ LastReply(h) = <<MSG_STORED>>
                 /\ SessionOf(USER_TEXTS, h.user_id) = <<h.text>>

\* An extraction of exactly 50 characters gave a user without a session one.
C2_Witness ==
    \E h \in Uploads :
        /\ Extracted(h) /\ StrLen(h.text) = 50
        /\ h.user_id \notin DOMAIN h.entry
        /\ SessionOf(USER_TEXTS, h.user_id) = <<h.text>>

\* C3: handling a question never changes the session store: at every point
\* of the handler, and when it has finished with an answer, an empty result or
\* a backend failure, the store is the one the question found.
C3_QuestionKeepsStore ==
    \A h \in Questions : USER_TEXTS = h.entry

\* A question has been answered for a user who has a session.
C3_Witness ==
    \E h \in Questions :
        /\ h.pc = "done" /\ Len(h.replies) = 2
        /\ h.user_id \in DOMAIN USER_TEXTS

\* C4: the prompt of a non-empty question is of the grounded form, embedding
\* (a prefix of) the user's session text and the question, exactly when the
\* user has a session as the question is handled; otherwise it is the
\* open-domain instruction and the question, with no context section.
C4_AnswerRouting ==
    \A h \in Questions :
        Asked(h) =>
            /\ h.question # <<>>
            /\ HasContextSection(h.prompt) <=> h.user_id \in DOMAIN h.entry
            /\ IF h.user_id \in DOMAIN h.entry
               THEN /\ GroundedForm(h.prompt, h.question)
                    /\ EmbeddedContext(h.prompt) # <<>>
                    /\ IsPrefix(EmbeddedContext(h.prompt), h.entry[h.user_id])
               ELSE OpenForm(h.prompt, h.question)

\* A user with a session asks while another user has none, and the prompt
\* is grounded.
C4_Witness ==
    \E h \in Questions :
        /\ Asked(h)
        /\ h.user_id \in DOMAIN h.entry
        /\ DOMAIN h.entry # Users
        /\ HasContextSection(h.prompt)

\* C5: once a forget has been handled for a user the user has no session,
\* the other users' sessions are as they were, and a question of that user,
\* no upload of theirs having been stored since, gets the open-domain prompt;
\* a forget for a user without a session changes nothing and raises nothing.
C5_ForgetClears ==
    /\ \A u \in cleared : u \notin DOMAIN USER_TEXTS
    /\ \A h \in Handlers :
          h.handler = "handle_buttons" /\ h.update.text = <<BTN_FORGET>> /\ h.pc # "start" =>
              /\ h.pc = "done" /\ h.error = "none"
              /\ h.user_id \in cleared
              /\ DOMAIN USER_TEXTS = DOMAIN h.entry \ {h.user_id}
              /\ \A v \in DOMAIN USER_TEXTS : USER_TEXTS[v] = h.entry[v]
              /\ h.user_id \notin DOMAIN h.entry => USER_TEXTS = h.entry
    /\ \A h \in Questions :
          Asked(h) /\ h.user_id \in cleared =>
              /\ OpenForm(h.prompt, h.question)
              /\ ~HasContextSection(h.prompt)

\* A forget has removed the session of a user.
C5_Witness ==
    \E h \in Handlers :
        /\ h.handler = "handle_buttons" /\ h.update.text = <<BTN_FORGET>>
        /\ h.pc = "done"
        /\ h.user_id \in DOMAIN h.entry
        /\ h.user_id \notin DOMAIN USER_TEXTS

\* C6: the store holds one text per user, and a stored upload replaces the
\* session: when an upload B of a user who had the session A has been stored,
\* the user's session text is B, and the context of a grounded prompt is
\* taken from the session text the user has now and from nothing else.
C6_SessionReplacement ==
    /\ DOMAIN USER_TEXTS \subseteq Users
    /\ \A h \in Uploads :
          Extracted(h) /\ StrLen(h.text) >= 50 =>
              /\ SessionOf(USER_TEXTS, h.user_id) = <<h.text>>
              /\ \A v \in Users \ {h.user_id} :
                    SessionOf(USER_TEXTS, v) = SessionOf(h.entry, v)
    /\ \A h \in Questions :
          Asked(h) /\ HasContextSection(h.prompt) =>
              /\ h.user_id \in DOMAIN USER_TEXTS
              /\ IsPrefix(EmbeddedContext(h.prompt), USER_TEXTS[h.user_id])

\* A second upload has been stored over a different session text.
C6_Witness ==
    \E h \in Uploads :
        /\ Extracted(h) /\ StrLen(h.text) >= 50
        /\ h.user_id \in DOMAIN h.entry
        /\ CharsOf(h.entry[h.user_id]) \cap CharsOf(h.text) = {}
        /\ USER_TEXTS[h.user_id] = h.text

\* C7: the context a grounded prompt embeds is the prefix of the user's
\* session text of length min(len(text), 15000): never more than 15000
\* characters, and the whole text when it has 15000 characters or fewer.
C7_TruncationExact ==
    \A h \in Questions :
        Asked(h) /\ h.user_id \in DOMAIN h.entry =>
            LET text == h.entry[h.user_id]
                ctx == EmbeddedContext(h.prompt)
            IN  /\ GroundedForm(h.prompt, h.question)
                /\ IsPrefix(ctx, text)
                /\ StrLen(ctx) = Min(StrLen(text), 15000)
                /\ StrLen(text) <= 15000 => ctx = text

\* A session text of 15001 characters has been cut to 15000 in a prompt.
C7_Witness ==
    \E h \in Questions :
        /\ Asked(h) /\ h.user_id \in DOMAIN h.entry
        /\ StrLen(h.entry[h.user_id]) = 15001
        /\ StrLen(EmbeddedContext(h.prompt)) = 15000

\* The document handler has refused the document as too large.
Rejected(h) == MSG_TOO_LARGE \in {h.replies[k] : k \in DOMAIN h.replies}

\* C8: a document is rejected exactly when its declared size is greater
\* than 20*1024*1024 bytes; a rejected document is neither downloaded nor
\* extracted and the store is left as it was, and a document that is not
\* rejected goes on to the download.
C8_SizeGate ==
    \A h \in Handlers :
        h.handler = "handle_document" /\ h.pc # "start" =>
            LET size == h.update.document[1].file_size
            IN  /\ Rejected(h) <=> (size # <<>> /\ size[1] > 20 * 1024 * 1024)
                /\ Rejected(h) =>
                      /\ h.pc = "done" /\ h.replies = <<MSG_TOO_LARGE>>
                      /\ ~h.downloaded /\ ~h.extracted
                      /\ USER_TEXTS = h.entry
                /\ ~Rejected(h) => h.pc = "download" \/ h.downloaded

\* A document of 20 MiB + 1 has been rejected for a user who has a session.
C8_Witness ==
    \E h \in Handlers :
        /\ h.handler = "handle_document" /\ Rejected(h)
        /\ h.update.document[1].file_size = <<20 * 1024 * 1024 + 1>>
        /\ h.user_id \in DOMAIN USER_TEXTS

\* C9: when the backend call of a question raises, the handler ends
\* normally, the user is sent the fixed retry message after the notice, the
\* message has nothing of the error in it, and the backend has been called
\* once.
C9_BackendFailureContained ==
    \A h \in Questions :
        h.error # "none" =>
            /\ h.pc = "done"
            /\ h.replies = <<MSG_PREPARING, <<Run("MSG_GEMINI_ERROR", 1)>> >>
            /\ h.error \notin CharsOf(h.replies[Len(h.replies)])
            /\ h.calls = 1

\* A backend call has raised.
C9_Witness ==
    \E h \in Questions :
        /\ h.error = "ResourceExhausted" /\ h.pc = "done" /\ h.calls = 1

\* C10: when extract_text raises, the upload handler catches it, sends the
\* extraction-failure message, ends normally and leaves the session as it
\* was.
C10_ExtractionFailureCaught ==
    \A h \in Uploads :
        h.extracted /\ extract_text(h.file_path,
                          IF h.handler = "handle_document"
                          THEN h.update.document[1].content
                          ELSE h.update.photo[1]).raised =>
            /\ h.pc = "done"
            /\ LastReply(h) = <<NoTextMessage(h)>>
            /\ SessionOf(USER_TEXTS, h.user_id) = SessionOf(h.entry, h.user_id)


KnownKinds == {".pdf", ".png", ".jpg", ".jpeg", ".webp", ".docx", ".txt"}

\* The extension of the file a document handler has downloaded.
DeclaredKind(h) ==
    IF h.update.document[1].file_name = <<>> THEN ""
    ELSE Lower(h.update.document[1].file_name[1].ext)

\* C12: a document whose extension is none of the known kinds extracts to
\* the empty text without raising, whatever the file holds: the handler
\* reports the extraction failure and the user's session is left as it was.
C12_UnknownKindIsEmptyText ==
    \A h \in Handlers :
        /\ h.handler = "handle_document" /\ h.pc \notin {"start", "download", "extract", "hung"}
        /\ h.downloaded
        /\ DeclaredKind(h) \notin KnownKinds
        => /\ h.pc = "done" /\ h.extracted
           /\ h.text = <<>>
           /\ h.replies = <<MSG_EXTRACTING, MSG_NO_TEXT>>
           /\ SessionOf(USER_TEXTS, h.user_id) = SessionOf(h.entry, h.user_id)

\* A file of unknown kind that no library could read has been reported as
\* having no usable text, for a user who has a session.
C12_Witness ==
    \E h \in Handlers :
        /\ h.handler = "handle_document" /\ h.pc = "done" /\ h.extracted
        /\ DeclaredKind(h) = ".bin" /\ ~h.update.document[1].content.ok
        /\ LastReply(h) = <<MSG_NO_TEXT>>
        /\ h.user_id \in DOMAIN USER_TEXTS


\* C13: normalize_persian is idempotent: normalizing a normalized text gives
\* the same text.
C13_NormalizeIdempotent ==
    norm.twice # <<>> => norm.twice = norm.once

\* A text that every step of normalize_persian changes has been normalized
\* twice.
C13_Witness ==
    /\ norm.twice # <<>>
    /\ norm.once[1] # <<>>
    /\ norm.text = <<Run(" ", 1), Run(ARABIC_YEH, 1), Run("\n", 3)>>
    /\ norm.once[1] = <<Run("U+06CC", 1)>>

\* C14: the output of normalize_persian has no two newlines in a row, no
\* two spaces or tabs in a row (and no tab at all), and no whitespace at its
\* start or end.
C14_NormalizedShape ==
    norm.once # <<>> =>
        LET out == norm.once[1]
        IN  /\ \A j \in DOMAIN out :
                 /\ out[j].ch \in {"\n", " "} => out[j].n = 1
                 /\ out[j].ch # "\t"
                 /\ out[j].n >= 1
            /\ \A j \in 1..(Len(out) - 1) :
                 /\ out[j].ch # out[j + 1].ch
                 /\ ~({out[j].ch, out[j + 1].ch} \subseteq {" ", "\t"})
            /\ out # <<>> =>
                 /\ out[1].ch \notin {" ", "\t", "\n", "\r"}
                 /\ out[Len(out)].ch \notin {" ", "\t", "\n", "\r"}

\* A text with three newlines between two characters and spaces around has
\* been normalized to the two characters and one newline.
C14_Witness ==
    /\ norm.once # <<>>
    /\ \E j \in DOMAIN norm.text : norm.text[j] = Run("\n", 3)
    /\ \E j \in DOMAIN norm.text : norm.text[j].ch \in {" ", "\t"} /\ norm.text[j].n >= 2
    /\ Len(norm.once[1]) >= 1


\* C17: every text in the session store has at least 50 characters and is a
\* fixed point of normalize_persian.
C17_StoredTextsNormalized ==
    \A u \in DOMAIN USER_TEXTS :
        /\ StrLen(USER_TEXTS[u]) >= 50
        /\ normalize_persian(USER_TEXTS[u]) = USER_TEXTS[u]

\* An upload whose file held a text that normalize_persian changes has stored
\* its text.
C17_Witness ==
    \E h \in Uploads :
        /\ Extracted(h)
        /\ LastReply(h) = <<MSG_STORED>>
        /\ h.handler = "handle_document"
        /\ h.update.document[1].content.raw # h.text
        /\ SessionOf(USER_TEXTS, h.user_id) = <<h.text>>

\* The steps of the handlers of user u are the only ones that change the
\* session of u.
OnlyOwnSession ==
    \A v \in Users :
        SessionOf(USER_TEXTS', v) # SessionOf(USER_TEXTS, v) =>
            \E i \in DOMAIN handlers :
                /\ handlers[i].user_id = v
                /\ i \in DOMAIN handlers'
                /\ handlers'[i] # handlers[i]
                /\ \A j \in DOMAIN handlers \ {i} :
                        j \in DOMAIN handlers' /\ handlers'[j] = handlers[j]

\* C18: an event of user u leaves the session of every other user unchanged:
\* no step of a handler of u changes it, and it is the same when the handler
\* has finished as when it started.
C18_CrossUserIsolation ==
    /\ [][OnlyOwnSession]_vars
    /\ [](\A h \in Handlers : \A v \in Users \ {h.user_id} :
            SessionOf(USER_TEXTS, v) = SessionOf(h.entry, v))

\* A handler of one user has changed that user's session while another user
\* has one.
C18_Witness ==
    \E h \in Handlers :
        /\ h.pc = "done"
        /\ SessionOf(USER_TEXTS, h.user_id) # SessionOf(h.entry, h.user_id)
        /\ \E v \in Users \ {h.user_id} : SessionOf(USER_TEXTS, v) # <<>>


\* C15: a request whose backend call or extraction never returns blocks only
\* itself: an update of another user that is waiting can be taken and handled.
C15_HungRequestBlocksOnlyItself ==
    \A h \in Handlers :
        /\ h.pc = "hung"
        /\ update_queue # <<>>
        /\ Head(update_queue).update.user_id # h.user_id
        => ENABLED Fetch

\* What the extraction of an upload gives (lines 143-149 and 168-173).
UploadText(update) ==
    IF update.document # <<>>
    THEN LET doc == update.document[1]
         IN  extract_text(
                 safe_unique_path(doc.file_name,
                     IF doc.file_name = <<>> THEN "" ELSE doc.file_name[1].ext),
                 doc.content)
    ELSE extract_text(safe_unique_path(Name("photo", ".jpg"), ".jpg"),
                      update.photo[1])

\* A forget whose update arrived while an upload of the same user was
\* suspended in its download or extraction, with nothing waiting before it.
ForgetDuringUpload(f) ==
    /\ f.handler = "handle_buttons"
    /\ f.update.text = <<BTN_FORGET>>
    /\ f.during # <<>>
    /\ f.during[1].handler \in {"handle_document", "handle_photo"}
    /\ f.during[1].pc \in {"download", "extract"}
    /\ f.during[1].behind = 0

FinalReply(resp) ==
    IF resp.raises THEN MSG_GEMINI_ERROR
    ELSE IF Strip(IF resp.text = <<>> THEN <<>> ELSE resp.text[1]) = <<>>
         THEN MSG_NO_ANSWER
         ELSE Strip(resp.text[1])

QuestionOf(h) == Strip(IF h.update.text = <<>> THEN <<>> ELSE h.update.text[1])

\* What a question handler has sent and called at each point: nothing for an
\* empty question; otherwise the notice, then one call, then one final reply.
OneFinalReply(h) ==
    IF QuestionOf(h) = <<>>
    THEN h.replies = <<>> /\ h.calls = 0
    ELSE /\ h.pc = "start" => h.replies = <<>> /\ h.calls = 0
         /\ h.pc \in {"answer", "hung"} =>
                h.replies = <<MSG_PREPARING>> /\ h.calls = 1
         /\ h.pc = "done" =>
                /\ h.calls = 1
                /\ Len(h.replies) = 2
                /\ h.replies[1] = MSG_PREPARING
                /\ h.replies[2] = FinalReply(h.response[1])

====
